---- MODULE Spec2Model ----
(***************************************************************************)
(* Model of app/app.py: a Flask service with two routes.  GET / runs the   *)
(* database probe check_db() and reports its result, GET /health answers   *)
(* without touching the database.  Requests are handled by independent     *)
(* threads; the database server is the environment.                        *)
(***************************************************************************)
EXTENDS Integers, Sequences, FiniteSets, TLC

\* Number of requests the service receives in a run.
MaxRequests == 2

\* connect_timeout=2 passed to psycopg2.connect.
connect_timeout == 2

Requests == 1..MaxRequests

\* Behaviours of the database server the probe can meet.
\*   up        accepts connections and answers queries
\*   refusing  nothing listens: the connect is refused at once
\*   silent    packets are dropped: no answer at all
\*   authfail  the server rejects the credentials
\*   hang      accepts connections, never answers a query
\*   broken    accepts connections, answers a query with an error
DbModes == {"up", "refusing", "silent", "authfail", "hang", "broken"}

\* The five calls of check_db's try block, in program order.
Steps == <<"connect", "cursor", "execute", "cur_close", "conn_close">>

\* Exception classes the five calls can raise.  All derive from Exception.
ErrorKinds == {"OperationalError", "DatabaseError", "InterfaceError"}

VARIABLES
    db,        \* current behaviour of the database server
    conns,     \* every connection ever opened: {[id, open, users]}
    pc,        \* pc[r]: where request r's handler stands
    route,     \* route[r]: "none", "index" or "health"
    probes,    \* probes[r]: calls of check_db() made for request r
    attempts,  \* attempts[r]: calls of psycopg2.connect in r's probe
    queries,   \* queries[r]: calls of cur.execute in r's probe
    waited,    \* waited[r]: time the outstanding connect of r has waited
    conn,      \* conn[r]: local variable conn (a connection id, or NoConn)
    cur,       \* cur[r]: local variable cur: "none", "open", "closed"
    log,       \* log[r]: outcome of each call that returned or raised
    result,    \* result[r]: "none", "True", "False", or "Raise" (propagated)
    response   \* response[r]: [status, body], body a set of <<key, value>>

vars == <<db, conns, pc, route, probes, attempts, queries, waited, conn, cur,
          log, result, response>>

NoResponse == [status |-> 0, body |-> {}]

\* A connection is identified by the probe that opened it and by the number
\* of the connect call that returned it; its owner is that probe.
NoConn == <<0, 0>>
Owner(id) == id[1]

Init ==
    /\ db \in DbModes
    /\ conns = {}
    /\ pc = [r \in Requests |-> "pending"]
    /\ route = [r \in Requests |-> "none"]
    /\ probes = [r \in Requests |-> 0]
    /\ attempts = [r \in Requests |-> 0]
    /\ queries = [r \in Requests |-> 0]
    /\ waited = [r \in Requests |-> 0]
    /\ conn = [r \in Requests |-> NoConn]
    /\ cur = [r \in Requests |-> "none"]
    /\ log = [r \in Requests |-> <<>>]
    /\ result = [r \in Requests |-> "none"]
    /\ response = [r \in Requests |-> NoResponse]

(***************************************************************************)
(* The database server as psycopg2 sees it.                                *)
(***************************************************************************)

\* What psycopg2.connect meets: "ok", an exception class, or "wait" when the
\* server does not answer.
ConnectOutcome(mode) ==
    CASE mode \in {"up", "hang", "broken"} -> "ok"
      [] mode \in {"refusing", "authfail"} -> "OperationalError"
      [] OTHER -> "wait"

\* What cur.execute("SELECT 1") meets on an established connection.
QueryOutcome(mode) ==
    CASE mode \in {"up", "authfail"} -> "ok"
      [] mode = "broken" -> "DatabaseError"
      [] mode = "refusing" -> "OperationalError"
      [] OTHER -> "wait"

\* The server changes behaviour at any time.
DbChange ==
    /\ \E m \in DbModes \ {db} : db' = m
    /\ UNCHANGED <<conns, pc, route, probes, attempts, queries, waited, conn,
                   cur, log, result, response>>

(***************************************************************************)
(* check_db                                                                *)
(***************************************************************************)

Entry(step, err) == [step |-> step, err |-> err]

\* A handler that names one psycopg2 class instead of Exception.
CaughtNarrow(kind) == kind = "OperationalError"

\* `except Exception`: every exception class the calls raise is caught.
Caught(kind) == kind \in ErrorKinds

\* A handler that tries the probe again, once, instead of giving up.
RaisedRetry(r, step, kind) ==
    /\ log' = [log EXCEPT ![r] = Append(@, Entry(step, kind))]
    /\ IF attempts[r] < 2
       THEN /\ pc' = [pc EXCEPT ![r] = "start"]
            /\ UNCHANGED result
       ELSE /\ pc' = [pc EXCEPT ![r] = "result"]
            /\ result' = [result EXCEPT ![r] = "False"]

\* A call of the try block raises `kind`: control leaves the block, the
\* handler logs and returns False; an exception the handler does not catch
\* leaves check_db.
Raised(r, step, kind) ==
    /\ log' = [log EXCEPT ![r] = Append(@, Entry(step, kind))]
    /\ pc' = [pc EXCEPT ![r] = "result"]
    /\ result' = [result EXCEPT ![r] = IF Caught(kind) THEN "False" ELSE "Raise"]

\* A call of the try block returns normally.
Returned(r, step, next) ==
    /\ log' = [log EXCEPT ![r] = Append(@, Entry(step, "ok"))]
    /\ pc' = [pc EXCEPT ![r] = next]
    /\ UNCHANGED result

\* The connection conn[r] is used by request r's probe.
Touch(r) ==
    {IF c.id = conn[r] THEN [c EXCEPT !.users = @ \cup {r}] ELSE c : c \in conns}

\* A probe that takes an open connection left by another probe, if any.
PooledConnection(r) ==
    IF \E c \in conns : c.open
    THEN /\ conn' = [conn EXCEPT ![r] = (CHOOSE c \in conns : c.open).id]
         /\ UNCHANGED conns
    ELSE /\ conns' = conns \cup
                {[id |-> <<r, attempts[r]>>, open |-> TRUE, users |-> {}]}
         /\ conn' = [conn EXCEPT ![r] = <<r, attempts[r]>>]

\* psycopg2.connect returns a new connection, bound to the local conn.
NewConnection(r) ==
    /\ conns' = conns \cup
          {[id |-> <<r, attempts[r]>>, open |-> TRUE, users |-> {}]}
    /\ conn' = [conn EXCEPT ![r] = <<r, attempts[r]>>]

\* check_db calls psycopg2.connect(..., connect_timeout=2).
ConnectCall(r) ==
    /\ pc[r] = "start"
    /\ pc' = [pc EXCEPT ![r] = "connecting"]
    /\ attempts' = [attempts EXCEPT ![r] = @ + 1]
    /\ waited' = [waited EXCEPT ![r] = 0]
    /\ UNCHANGED <<db, conns, route, probes, queries, conn, cur, log, result,
                   response>>

\* The server answers the connect: a connection, or an error.
ConnectReturn(r) ==
    /\ pc[r] = "connecting"
    /\ ConnectOutcome(db) # "wait"
    /\ IF ConnectOutcome(db) = "ok"
       THEN /\ NewConnection(r)
            /\ Returned(r, "connect", "connected")
       ELSE /\ Raised(r, "connect", ConnectOutcome(db))
            /\ UNCHANGED <<conns, conn>>
    /\ waited' = [waited EXCEPT ![r] = 0]
    /\ UNCHANGED <<db, route, probes, attempts, queries, cur, response>>

\* Time passes while the connect is outstanding.
ConnectTick(r) ==
    /\ pc[r] = "connecting"
    /\ waited[r] < connect_timeout
    /\ waited' = [waited EXCEPT ![r] = @ + 1]
    /\ UNCHANGED <<db, conns, pc, route, probes, attempts, queries, conn, cur,
                   log, result, response>>

\* A connect without connect_timeout: it waits for as long as it takes.
ConnectNoTimeout(r) ==
    /\ pc[r] = "connecting"
    /\ waited[r] = connect_timeout
    /\ UNCHANGED vars

\* connect_timeout expires: psycopg2.connect raises OperationalError.
ConnectTimeout(r) ==
    /\ pc[r] = "connecting"
    /\ waited[r] = connect_timeout
    /\ Raised(r, "connect", "OperationalError")
    /\ waited' = [waited EXCEPT ![r] = 0]
    /\ UNCHANGED <<db, conns, route, probes, attempts, queries, conn, cur,
                   response>>

\* cur = conn.cursor()
Cursor(r) ==
    /\ pc[r] = "connected"
    /\ conns' = Touch(r)
    /\ \/ /\ Returned(r, "cursor", "cursor")
          /\ cur' = [cur EXCEPT ![r] = "open"]
       \/ /\ Raised(r, "cursor", "InterfaceError")
          /\ UNCHANGED cur
    /\ UNCHANGED <<db, route, probes, attempts, queries, waited, conn, response>>

\* cur.execute("SELECT 1") sends the query.
ExecuteCall(r) ==
    /\ pc[r] = "cursor"
    /\ pc' = [pc EXCEPT ![r] = "querying"]
    /\ queries' = [queries EXCEPT ![r] = @ + 1]
    /\ conns' = Touch(r)
    /\ UNCHANGED <<db, route, probes, attempts, waited, conn, cur, log, result,
                   response>>

\* The server answers the query; nothing bounds the wait for the answer.
ExecuteReturn(r) ==
    /\ pc[r] = "querying"
    /\ QueryOutcome(db) # "wait"
    /\ IF QueryOutcome(db) = "ok"
       THEN Returned(r, "execute", "queried")
       ELSE Raised(r, "execute", QueryOutcome(db))
    /\ UNCHANGED <<db, conns, route, probes, attempts, queries, waited, conn,
                   cur, response>>

\* cur.close()
CursorClose(r) ==
    /\ pc[r] = "queried"
    /\ \/ /\ Returned(r, "cur_close", "cur_closed")
          /\ cur' = [cur EXCEPT ![r] = "closed"]
       \/ /\ Raised(r, "cur_close", "InterfaceError")
          /\ UNCHANGED cur
    /\ UNCHANGED <<db, conns, route, probes, attempts, queries, waited, conn,
                   response>>

\* conn.close()
ConnClose(r) ==
    /\ pc[r] = "cur_closed"
    /\ \/ /\ Returned(r, "conn_close", "closed")
          /\ conns' = {IF c.id = conn[r] THEN [c EXCEPT !.open = FALSE] ELSE c :
                           c \in Touch(r)}
       \/ /\ \E kind \in {"OperationalError", "InterfaceError"} :
                Raised(r, "conn_close", kind)
          /\ conns' = Touch(r)
    /\ UNCHANGED <<db, route, probes, attempts, queries, waited, conn, cur,
                   response>>

\* A probe that reports success as soon as the cursor is closed.
ReturnTrueEarly(r) ==
    /\ pc[r] \in {"cur_closed", "closed"}
    /\ pc' = [pc EXCEPT ![r] = "result"]
    /\ result' = [result EXCEPT ![r] = "True"]
    /\ UNCHANGED <<db, conns, route, probes, attempts, queries, waited, conn,
                   cur, log, response>>

\* return True
ReturnTrue(r) ==
    /\ pc[r] = "closed"
    /\ pc' = [pc EXCEPT ![r] = "result"]
    /\ result' = [result EXCEPT ![r] = "True"]
    /\ UNCHANGED <<db, conns, route, probes, attempts, queries, waited, conn,
                   cur, log, response>>

(***************************************************************************)
(* The routes                                                              *)
(***************************************************************************)

\* "reachable" if check_db() else "unreachable"
DbField(ok) == IF ok THEN "reachable" ELSE "unreachable"

\* jsonify of the root route's dictionary.
IndexBody(ok) ==
    {<<"message", "DevOps Platform Demo App">>, <<"db", DbField(ok)>>}

\* jsonify({"status": "ok"})
HealthBody == {<<"status", "ok">>}

\* GET / arrives: index() is entered and calls check_db().
IndexCall(r) ==
    /\ pc[r] = "pending"
    /\ pc' = [pc EXCEPT ![r] = "start"]
    /\ route' = [route EXCEPT ![r] = "index"]
    /\ probes' = [probes EXCEPT ![r] = @ + 1]
    /\ UNCHANGED <<db, conns, attempts, queries, waited, conn, cur, log,
                   result, response>>

\* A root route that answers 503 when the probe fails.
IndexReturn503(r) ==
    /\ pc[r] = "result"
    /\ pc' = [pc EXCEPT ![r] = "responded"]
    /\ response' = [response EXCEPT ![r] =
          [status |-> IF result[r] = "True" THEN 200 ELSE 503,
           body |-> IndexBody(result[r] = "True")]]
    /\ UNCHANGED <<db, conns, route, probes, attempts, queries, waited, conn,
                   cur, log, result>>

\* A root route that repeats the answer of an earlier request, if there is one.
IndexReturnCached(r) ==
    /\ pc[r] = "result"
    /\ pc' = [pc EXCEPT ![r] = "responded"]
    /\ response' = [response EXCEPT ![r] =
          IF \E q \in Requests : route[q] = "index" /\ pc[q] = "responded"
          THEN response[CHOOSE q \in Requests :
                            route[q] = "index" /\ pc[q] = "responded"]
          ELSE [status |-> 200, body |-> IndexBody(result[r] = "True")]]
    /\ UNCHANGED <<db, conns, route, probes, attempts, queries, waited, conn,
                   cur, log, result>>

\* check_db() is back in index(): the response is built and sent.  An
\* exception leaving check_db leaves index too and Flask answers 500.
IndexReturn(r) ==
    /\ pc[r] = "result"
    /\ pc' = [pc EXCEPT ![r] = "responded"]
    /\ response' = [response EXCEPT ![r] =
          IF result[r] = "Raise"
          THEN [status |-> 500, body |-> {}]
          ELSE [status |-> 200, body |-> IndexBody(result[r] = "True")]]
    /\ UNCHANGED <<db, conns, route, probes, attempts, queries, waited, conn,
                   cur, log, result>>

\* A health route that checks the database like the root route.
HealthProbing(r) ==
    /\ pc[r] = "pending"
    /\ pc' = [pc EXCEPT ![r] = "start"]
    /\ route' = [route EXCEPT ![r] = "health"]
    /\ probes' = [probes EXCEPT ![r] = @ + 1]
    /\ UNCHANGED <<db, conns, attempts, queries, waited, conn, cur, log,
                   result, response>>

\* GET /health arrives: health() returns its fixed body.
Health(r) ==
    /\ pc[r] = "pending"
    /\ pc' = [pc EXCEPT ![r] = "responded"]
    /\ route' = [route EXCEPT ![r] = "health"]
    /\ response' = [response EXCEPT ![r] = [status |-> 200, body |-> HealthBody]]
    /\ UNCHANGED <<db, conns, probes, attempts, queries, waited, conn, cur,
                   log, result>>

Next ==
    \/ DbChange
    \/ \E r \in Requests :
          \/ IndexCall(r)
          \/ ConnectCall(r)
          \/ ConnectReturn(r)
          \/ ConnectTick(r)
          \/ ConnectTimeout(r)
          \/ Cursor(r)
          \/ ExecuteCall(r)
          \/ ExecuteReturn(r)
          \/ CursorClose(r)
          \/ ConnClose(r)
          \/ ReturnTrue(r)
          \/ IndexReturn(r)
          \/ Health(r)

Spec == Init /\ [][Next]_vars

\* The steps of a handler thread are taken when they can be: a blocking call
\* returns once the server has answered or the timer has run out, and time
\* passes.  Nothing is assumed of the server or of the clients.
Fairness ==
    \A r \in Requests :
        /\ WF_vars(ConnectCall(r))
        /\ WF_vars(ConnectReturn(r))
        /\ WF_vars(ConnectTick(r))
        /\ WF_vars(ConnectTimeout(r))
        /\ WF_vars(Cursor(r))
        /\ WF_vars(ExecuteCall(r))
        /\ WF_vars(ExecuteReturn(r))
        /\ WF_vars(CursorClose(r))
        /\ WF_vars(ConnClose(r))
        /\ WF_vars(ReturnTrue(r))
        /\ WF_vars(IndexReturn(r))

FairSpec == Spec /\ Fairness

(***************************************************************************)
(* Properties                                                              *)
(***************************************************************************)

\* Every call of the try block returned normally, in program order.
AllOk(r) == log[r] = [i \in 1..Len(Steps) |-> Entry(Steps[i], "ok")]

\* The call of psycopg2.connect returned a connection.
ConnectOk(r) == Len(log[r]) >= 1 /\ log[r][1] = Entry("connect", "ok")

\* The last call of r's probe raised in `step`.
FailedIn(r, step) ==
    /\ Len(log[r]) >= 1
    /\ log[r][Len(log[r])].step = step
    /\ log[r][Len(log[r])].err # "ok"

DbValues(r) == {p[2] : p \in {q \in response[r].body : q[1] = "db"}}

Answered(r, rt) == route[r] = rt /\ pc[r] = "responded"

\* C1: every response to GET / has status 200 and carries exactly one db
\* field, whose value is "reachable" or "unreachable", whatever the probe
\* met; no exception leaves check_db or index.
C1_IndexAlways200 ==
    \A r \in Requests :
        /\ result[r] # "Raise"
        /\ Answered(r, "index") =>
              /\ response[r].status = 200
              /\ Cardinality({q \in response[r].body : q[1] = "db"}) = 1
              /\ DbValues(r) \subseteq {"reachable", "unreachable"}

\* A GET / whose probe failed while closing the connection was answered.
C1_Witness ==
    \E r \in Requests :
        /\ Answered(r, "index")
        /\ FailedIn(r, "conn_close")
        /\ response[r].status = 200
        /\ DbValues(r) = {"unreachable"}

\* C2: check_db returns True exactly when connect, cursor, execute,
\* cursor close and connection close all succeeded, returns False when one
\* of them raised, and never lets the exception out.
C2_ResultIffAllSteps ==
    \A r \in Requests :
        pc[r] \in {"result", "responded"} /\ route[r] = "index" =>
            /\ result[r] \in {"True", "False"}
            /\ result[r] = "True" <=> AllOk(r)

\* A probe returned False because the cursor close raised.
C2_Witness ==
    \E r \in Requests :
        /\ pc[r] = "result"
        /\ result[r] = "False"
        /\ FailedIn(r, "cur_close")
        /\ log[r][Len(log[r])].err = "InterfaceError"

\* C3: once check_db has returned, no connection it opened is still open.
C3_ConnClosedOnReturn ==
    \A r \in Requests :
        pc[r] \in {"result", "responded"} =>
            \A c \in conns : Owner(c.id) = r => ~c.open

\* C4: GET /health is answered {"status": "ok"} with status 200 in every
\* state of the database, and handling it calls neither check_db nor
\* psycopg2.connect and holds no connection.
C4_HealthBypassesProbe ==
    \A r \in Requests :
        route[r] = "health" =>
            /\ pc[r] = "responded"
            /\ response[r] = [status |-> 200, body |-> HealthBody]
            /\ probes[r] = 0
            /\ attempts[r] = 0
            /\ queries[r] = 0
            /\ conn[r] = NoConn
            /\ \A c \in conns : Owner(c.id) # r /\ r \notin c.users

\* GET /health was answered while the server hangs and a probe waits for
\* the answer to its query.
C4_Witness ==
    /\ db = "hang"
    /\ \E r, q \in Requests :
          /\ Answered(r, "health")
          /\ response[r].status = 200
          /\ pc[q] = "querying"

\* C5: a GET / whose query is outstanding is eventually answered, also
\* when the server accepted the connection and never answers the query.
C5_HangingQueryCompletes ==
    \A r \in Requests : (pc[r] = "querying") ~> (pc[r] = "responded")

\* C6: an outstanding connect ends: with a connection, or, when the host
\* refuses or stays silent until connect_timeout, with GET / answered
\* db: "unreachable".
C6_ConnectBounded ==
    \A r \in Requests :
        (pc[r] = "connecting") ~>
            \/ ConnectOk(r)
            \/ /\ Answered(r, "index")
               /\ response[r].status = 200
               /\ DbValues(r) = {"unreachable"}

\* GET / was answered "unreachable" after a failed connect to a silent host.
C6_Witness ==
    /\ db = "silent"
    /\ \E r \in Requests :
          /\ Answered(r, "index")
          /\ log[r] = <<Entry("connect", "OperationalError")>>
          /\ DbValues(r) = {"unreachable"}

\* C7: every answered GET / ran exactly one probe, and its db value is
\* "reachable" exactly when that probe's own five calls succeeded.
C7_OwnProbeDecides ==
    \A r \in Requests :
        Answered(r, "index") =>
            /\ probes[r] = 1
            /\ DbValues(r) = {IF AllOk(r) THEN "reachable" ELSE "unreachable"}

\* Two GET / requests were answered differently, each by its own probe.
C7_Witness ==
    \E r, q \in Requests :
        /\ Answered(r, "index") /\ DbValues(r) = {"reachable"}
        /\ Answered(q, "index") /\ DbValues(q) = {"unreachable"}
        /\ probes[r] = 1 /\ probes[q] = 1

\* C8: a probe calls psycopg2.connect at most once and cur.execute at most
\* once, opens at most one connection, and the connection it holds is the
\* one its own connect call returned.
C8_SingleAttempt ==
    \A r \in Requests :
        /\ attempts[r] <= 1
        /\ queries[r] <= 1
        /\ Cardinality({c \in conns : Owner(c.id) = r}) <= 1
        /\ conn[r] # NoConn => conn[r] = <<r, 1>>

\* One probe gave up after a failed connect, another after a failed query.
C8_Witness ==
    \E r, q \in Requests :
        /\ pc[r] = "responded" /\ FailedIn(r, "connect") /\ attempts[r] = 1
        /\ pc[q] = "responded" /\ FailedIn(q, "execute") /\ queries[q] = 1

\* The transitions of the probe's linear state machine.  "cursor" and
\* "cur_closed" are the program points after conn.cursor() and cur.close(),
\* which lie between CONNECTED/QUERYING and QUERIED/CLOSED.
ProbeEdges ==
    {<<"start", "connecting">>, <<"connecting", "connected">>,
     <<"connected", "cursor">>, <<"cursor", "querying">>,
     <<"querying", "queried">>, <<"queried", "cur_closed">>,
     <<"cur_closed", "closed">>, <<"closed", "result">>,
     <<"connecting", "result">>, <<"connected", "result">>,
     <<"querying", "result">>, <<"queried", "result">>,
     <<"cur_closed", "result">>}

RouteEdges ==
    {<<"pending", "start">>, <<"pending", "responded">>,
     <<"result", "responded">>}

OwnConns(r) == {c \in conns : Owner(c.id) = r}

\* C9: a probe moves along START, CONNECTING, CONNECTED, QUERYING, QUERIED,
\* CLOSED, RESULT: the query is sent only after connect succeeded, the
\* connection is closed only after the query succeeded, True is returned only
\* from CLOSED, a raising call leads straight to the result False, and once
\* the result is reached the probe performs no further database step.
C9_LinearProbe ==
    [][\A r \in Requests :
          /\ pc'[r] # pc[r] => <<pc[r], pc'[r]>> \in ProbeEdges \cup RouteEdges
          /\ queries'[r] # queries[r] => ConnectOk(r)
          /\ (\E c \in OwnConns(r) : c.open) /\ ~(\E c \in OwnConns(r)' : c.open)
                => Entry("execute", "ok") \in {log[r][i] : i \in 1..Len(log[r])}
          /\ pc'[r] = "result" /\ pc[r] # "result" =>
                /\ result'[r] \in {"True", "False"}
                /\ result'[r] = "True" <=> pc[r] = "closed"
                /\ result'[r] = "False" <=>
                      /\ log'[r] # log[r]
                      /\ log'[r][Len(log'[r])].err # "ok"
          /\ log'[r] # log[r] /\ log'[r][Len(log'[r])].err # "ok"
                => pc'[r] = "result"
          /\ pc[r] \in {"result", "responded"} =>
                /\ pc'[r] \in {"result", "responded"}
                /\ result'[r] = result[r]
                /\ log'[r] = log[r]
                /\ attempts'[r] = attempts[r]
                /\ queries'[r] = queries[r]
                /\ OwnConns(r)' = OwnConns(r)]_vars

\* A probe went through all five calls and returned True.
C9_Witness ==
    \E r \in Requests :
        /\ pc[r] = "result"
        /\ result[r] = "True"
        /\ AllOk(r)
        /\ \A c \in OwnConns(r) : ~c.open

\* C10: under every interleaving a connection is used and closed only by
\* the probe that opened it, no two requests hold the same connection, and
\* each answer is decided by the request's own calls alone: GET /health is
\* answered ok and GET / by its own probe, whatever other requests meet.
C10_NoSharing ==
    /\ \A c \in conns : c.users \subseteq {Owner(c.id)}
    /\ \A r \in Requests : conn[r] # NoConn => Owner(conn[r]) = r
    /\ \A r, q \in Requests : r # q /\ conn[r] # NoConn => conn[r] # conn[q]
    /\ \A r \in Requests :
          /\ Answered(r, "health") => response[r].body = HealthBody
          /\ Answered(r, "index") =>
                ("reachable" \in DbValues(r) <=> AllOk(r))

\* A GET / was answered "reachable" while another probe, holding its own
\* open connection, waits on a server that has stopped answering.
C10_Witness ==
    /\ db = "hang"
    /\ \E r, q \in Requests :
          /\ pc[q] = "querying"
          /\ \E c \in conns : c.id = conn[q] /\ c.open /\ c.users = {q}
          /\ Answered(r, "index")
          /\ DbValues(r) = {"reachable"}
          /\ conn[r] # conn[q]

====
